---- MODULE Spec2Model ----
(***************************************************************************)
(* Model of the bridge: a tRPC router (src/router.ts) that validates each  *)
(* call's input against a zod schema and dispatches it to one of eight     *)
(* filesystem handlers (src/fs/index.ts) or two process handlers           *)
(* (src/process/index.ts), plus the client stubs that marshal calls.       *)
(*                                                                         *)
(* Wire values are JSON values, modelled as records tagged by t:           *)
(*   undefined, string, number, boolean, array, object.                    *)
(* Text whose characters matter (file data, base64) is a sequence of code  *)
(* points in field cp; names (paths, encodings, flags) are strings in v.   *)
(***************************************************************************)
EXTENDS Integers, Sequences, FiniteSets, TLC

\* ------------------------------------------------------------ bounds
\* Longest file content an appending write may produce.
MaxLen == 2

\* ------------------------------------------------------------ JSON values
Undef == [t |-> "undefined"]
Str(s) == [t |-> "string", v |-> s]
Txt(cps) == [t |-> "string", cp |-> cps]
Num(n) == [t |-> "number", v |-> n]
Bool(b) == [t |-> "boolean", v |-> b]
Arr(xs) == [t |-> "array", v |-> xs]

IsUndef(x) == x.t = "undefined"
IsString(x) == x.t = "string"
IsNumber(x) == x.t = "number"
IsBoolean(x) == x.t = "boolean"
IsObject(x) == x.t = "object"
IsArray(x) == x.t = "array"

\* JavaScript truthiness of a string-or-undefined value (if (x) ...).
TruthyStr(x) == IsString(x) /\ x.v # ""

\* ------------------------------------------------------------ base64
\* Buffer.toString("base64"): the standard alphabet, '=' padding.
B64Char(i) ==
    IF i < 26 THEN 65 + i
    ELSE IF i < 52 THEN 71 + i
    ELSE IF i < 62 THEN i - 4
    ELSE IF i = 62 THEN 43 ELSE 47

PadChar == 61

RECURSIVE ToBase64(_)
ToBase64(B) ==
    IF Len(B) = 0 THEN << >>
    ELSE IF Len(B) = 1 THEN
        << B64Char(B[1] \div 4), B64Char((B[1] % 4) * 16), PadChar, PadChar >>
    ELSE IF Len(B) = 2 THEN
        << B64Char(B[1] \div 4), B64Char((B[1] % 4) * 16 + (B[2] \div 16)),
           B64Char((B[2] % 16) * 4), PadChar >>
    ELSE
        << B64Char(B[1] \div 4), B64Char((B[1] % 4) * 16 + (B[2] \div 16)),
           B64Char((B[2] % 16) * 4 + (B[3] \div 64)), B64Char(B[3] % 64) >>
        \o ToBase64(SubSeq(B, 4, Len(B)))

\* Buffer.from(s, "base64"): characters outside the alphabet (padding
\* included) are skipped, a trailing partial group yields its whole bytes.
IsB64Char(c) ==
    \/ (c >= 65 /\ c <= 90) \/ (c >= 97 /\ c <= 122)
    \/ (c >= 48 /\ c <= 57) \/ c = 43 \/ c = 47

B64Val(c) ==
    IF c >= 65 /\ c <= 90 THEN c - 65
    ELSE IF c >= 97 /\ c <= 122 THEN c - 71
    ELSE IF c >= 48 /\ c <= 57 THEN c + 4
    ELSE IF c = 43 THEN 62 ELSE 63

RECURSIVE SextetsToBytes(_)
SextetsToBytes(s) ==
    IF Len(s) < 2 THEN << >>
    ELSE IF Len(s) = 2 THEN << s[1] * 4 + (s[2] \div 16) >>
    ELSE IF Len(s) = 3 THEN
        << s[1] * 4 + (s[2] \div 16), (s[2] % 16) * 16 + (s[3] \div 4) >>
    ELSE
        << s[1] * 4 + (s[2] \div 16), (s[2] % 16) * 16 + (s[3] \div 4),
           (s[3] % 4) * 64 + s[4] >>
        \o SextetsToBytes(SubSeq(s, 5, Len(s)))

FromBase64(cps) ==
    LET kept == SelectSeq(cps, IsB64Char)
    IN SextetsToBytes([i \in 1..Len(kept) |-> B64Val(kept[i])])

\* ------------------------------------------------------------ text encodings
Replacement == 65533

RECURSIVE Utf8Encode(_)
Utf8Encode(cps) ==
    IF Len(cps) = 0 THEN << >>
    ELSE LET c == Head(cps)
             enc == IF c < 128 THEN << c >>
                    ELSE IF c < 2048 THEN << 192 + (c \div 64), 128 + (c % 64) >>
                    ELSE << 224 + (c \div 4096), 128 + ((c \div 64) % 64), 128 + (c % 64) >>
         IN enc \o Utf8Encode(Tail(cps))

IsCont(b) == b >= 128 /\ b <= 191

\* Decoding replaces every byte that starts no well-formed sequence by U+FFFD.
RECURSIVE Utf8Decode(_)
Utf8Decode(B) ==
    IF Len(B) = 0 THEN << >>
    ELSE LET b == B[1] IN
        IF b < 128 THEN << b >> \o Utf8Decode(Tail(B))
        ELSE IF b >= 194 /\ b <= 223 /\ Len(B) >= 2 /\ IsCont(B[2]) THEN
            << (b - 192) * 64 + (B[2] - 128) >> \o Utf8Decode(SubSeq(B, 3, Len(B)))
        ELSE IF b >= 224 /\ b <= 239 /\ Len(B) >= 3 /\ IsCont(B[2]) /\ IsCont(B[3]) THEN
            << (b - 224) * 4096 + (B[2] - 128) * 64 + (B[3] - 128) >>
            \o Utf8Decode(SubSeq(B, 4, Len(B)))
        ELSE << Replacement >> \o Utf8Decode(Tail(B))

Latin1Encode(cps) == [i \in 1..Len(cps) |-> cps[i] % 256]
Latin1Decode(B) == B

\* The encodings the runtime knows, among those the model's calls name.
SupportedEncodings == {"utf8", "utf-8", "latin1"}

EncodeText(cps, enc) == IF enc = "latin1" THEN Latin1Encode(cps) ELSE Utf8Encode(cps)
DecodeBytes(B, enc) == IF enc = "latin1" THEN Latin1Decode(B) ELSE Utf8Decode(B)

\* ------------------------------------------------------------ host filesystem
\* The paths the calls name. "/" always exists and is a directory.
Paths == {"/d", "/d/x", "/d/y"}
Parent(p) == IF p = "/d" THEN "/" ELSE "/d"
ChildrenOf(p) == {q \in Paths : Parent(q) = p}

NoNode == [kind |-> "none", bytes |-> << >>]
DirNode == [kind |-> "dir", bytes |-> << >>]
FileNode(B) == [kind |-> "file", bytes |-> B]

\* A symbolic link to q, made on the host (no procedure makes one), and the
\* path a call that follows links ends at; links are one deep.
LinkNode(q) == [kind |-> "link", bytes |-> << >>, target |-> q]
Follow(f, p) == IF f[p].kind = "link" THEN f[p].target ELSE p

\* Why the directory holding p cannot be searched, or "ok".
ParentStatus(f, p) ==
    IF Parent(p) = "/" THEN "ok"
    ELSE IF f[Parent(p)].kind = "dir" THEN "ok"
    ELSE IF f[Parent(p)].kind = "none" THEN "ENOENT"
    ELSE "ENOTDIR"

\* What resolving p yields: "ok" when an entry is there.
PathStatus(f, p) ==
    IF ParentStatus(f, p) # "ok" THEN ParentStatus(f, p)
    ELSE IF f[p].kind = "none" THEN "ENOENT" ELSE "ok"

\* An error raised by a filesystem primitive; its message names all three.
OsError(code, syscall, p) ==
    [name |-> "Error", errno |-> code, syscall |-> syscall, path |-> p]
ArgError(what) ==
    [name |-> "TypeError", errno |-> "ERR_INVALID_ARG_VALUE", syscall |-> what, path |-> ""]

Ok(value, f) == [ok |-> TRUE, value |-> value, fs |-> f]
Fail(err, f) == [ok |-> FALSE, error |-> err, fs |-> f]

\* fs.access(path)
FsAccess(f, p) ==
    IF PathStatus(f, p) = "ok" THEN Ok(Undef, f)
    ELSE Fail(OsError(PathStatus(f, p), "access", p), f)

OptionIs(options, field, b) == IsObject(options) /\ options[field] = Bool(b)

\* An fs.mkdir that pays no heed to recursive.
FsMkdirPlain(f, p, options) ==
    IF ParentStatus(f, p) # "ok" THEN Fail(OsError(ParentStatus(f, p), "mkdir", p), f)
    ELSE IF f[p].kind # "none" THEN Fail(OsError("EEXIST", "mkdir", p), f)
    ELSE Ok(Undef, [f EXCEPT ![p] = DirNode])

\* fs.mkdir(path, options): resolves to the first directory created when
\* recursive, to undefined otherwise.
FsMkdir(f, p, options) ==
    IF OptionIs(options, "recursive", TRUE) THEN
        IF ParentStatus(f, p) = "ENOTDIR" THEN Fail(OsError("ENOTDIR", "mkdir", p), f)
        ELSE IF f[p].kind = "dir" THEN Ok(Undef, f)
        ELSE IF f[p].kind = "file" THEN Fail(OsError("EEXIST", "mkdir", p), f)
        ELSE IF ParentStatus(f, p) = "ENOENT" THEN
            Ok(Str(Parent(p)), [f EXCEPT ![Parent(p)] = DirNode, ![p] = DirNode])
        ELSE Ok(Str(p), [f EXCEPT ![p] = DirNode])
    ELSE
        IF ParentStatus(f, p) # "ok" THEN Fail(OsError(ParentStatus(f, p), "mkdir", p), f)
        ELSE IF f[p].kind # "none" THEN Fail(OsError("EEXIST", "mkdir", p), f)
        ELSE Ok(Undef, [f EXCEPT ![p] = DirNode])

\* The encoding an options value names: its string form, or its encoding
\* field; "" when none is named (an empty string counts as none, being falsy).
EncodingOf(options) ==
    IF IsString(options) THEN options.v
    ELSE IF IsObject(options) /\ IsString(options.encoding) THEN options.encoding.v
    ELSE ""

FlagOf(options, default) ==
    IF IsObject(options) /\ TruthyStr(options.flag) THEN options.flag.v ELSE default

\* A directory's entries, in the order the OS hands them out.
Listing(f, p, order) ==
    LET present == {q \in ChildrenOf(p) : f[q].kind # "none"}
        asc == IF "/d/x" \in present
               THEN IF "/d/y" \in present THEN << "/d/x", "/d/y" >> ELSE << "/d/x" >>
               ELSE IF "/d/y" \in present THEN << "/d/y" >> ELSE << >>
    IN IF order = "desc" THEN [i \in 1..Len(asc) |-> asc[Len(asc) + 1 - i]] ELSE asc

BaseName(p) == IF p = "/d" THEN "d" ELSE IF p = "/d/x" THEN "x" ELSE "y"

\* A Dirent that takes every entry for a regular file.
DirentAsFile(f, q) ==
    [t |-> "Dirent", name |-> BaseName(q), isFile |-> TRUE, isDirectory |-> FALSE,
     isSymbolicLink |-> FALSE]

Dirent(f, q) ==
    [t |-> "Dirent", name |-> BaseName(q),
     isFile |-> f[q].kind = "file", isDirectory |-> f[q].kind = "dir",
     isSymbolicLink |-> f[q].kind = "link"]

\* fs.readdir(path, options): names as strings, as Buffers under the
\* "buffer" encoding, or Dirent objects under withFileTypes.
FsReaddir(f, p, options, order) ==
    IF PathStatus(f, p) # "ok" THEN Fail(OsError(PathStatus(f, p), "scandir", p), f)
    ELSE IF f[p].kind # "dir" THEN Fail(OsError("ENOTDIR", "scandir", p), f)
    ELSE IF EncodingOf(options) \notin SupportedEncodings \cup {"", "buffer"}
    THEN Fail(ArgError("encoding"), f)
    ELSE LET l == Listing(f, p, order) IN
        IF OptionIs(options, "withFileTypes", TRUE)
        THEN Ok([i \in 1..Len(l) |-> Dirent(f, l[i])], f)
        ELSE IF EncodingOf(options) = "buffer"
        THEN Ok([i \in 1..Len(l) |-> [t |-> "Buffer", base |-> BaseName(l[i])]], f)
        ELSE Ok([i \in 1..Len(l) |-> Str(BaseName(l[i]))], f)

BufferOf(B) == [isBuffer |-> TRUE, bytes |-> B, text |-> << >>]
StringOf(cps) == [isBuffer |-> FALSE, bytes |-> << >>, text |-> cps]

\* fs.readFile(path, options): a Buffer unless an encoding is named. The
\* flag opens the file: "r" reads it, "w+" creates or truncates it first.
FsReadFile(f, p, options) ==
    LET enc == EncodingOf(options)
        flag == FlagOf(options, "r")
        wrap(B) == IF enc = "" THEN BufferOf(B) ELSE StringOf(DecodeBytes(B, enc))
    IN
    IF enc # "" /\ enc \notin SupportedEncodings THEN Fail(ArgError("encoding"), f)
    ELSE IF ParentStatus(f, p) # "ok" THEN Fail(OsError(ParentStatus(f, p), "open", p), f)
    ELSE IF f[p].kind = "dir" THEN Fail(OsError("EISDIR", "read", p), f)
    ELSE IF flag = "w+" THEN Ok(wrap(<< >>), [f EXCEPT ![p] = FileNode(<< >>)])
    ELSE IF f[p].kind = "none" THEN Fail(OsError("ENOENT", "open", p), f)
    ELSE Ok(wrap(f[p].bytes), f)

Stats(f, p, big) ==
    [size |-> IF f[p].kind = "file" THEN Len(f[p].bytes) ELSE 4096,
     isFile |-> f[p].kind = "file", isDirectory |-> f[p].kind = "dir",
     isSymbolicLink |-> FALSE, bigint |-> big]

NoStats == [size |-> 0, isFile |-> FALSE, isDirectory |-> FALSE,
            isSymbolicLink |-> FALSE, bigint |-> FALSE]

\* An fs.stat that does not follow a link (lstat).
FsLstat(f, p, options) ==
    IF PathStatus(f, p) = "ok"
    THEN Ok([defined |-> TRUE,
             stats |-> [Stats(f, p, OptionIs(options, "bigint", TRUE))
                            EXCEPT !.isSymbolicLink = f[p].kind = "link"]], f)
    ELSE IF PathStatus(f, p) = "ENOENT" /\ OptionIs(options, "throwIfNoEntry", FALSE)
    THEN Ok([defined |-> FALSE, stats |-> NoStats], f)
    ELSE Fail(OsError(PathStatus(f, p), "stat", p), f)

\* fs.stat(path, options): a link is followed to what it names; with
\* throwIfNoEntry false a missing entry resolves to undefined instead of
\* raising.
FsStat(f, p, options) ==
    IF PathStatus(f, Follow(f, p)) = "ok"
    THEN Ok([defined |-> TRUE,
             stats |-> Stats(f, Follow(f, p), OptionIs(options, "bigint", TRUE))], f)
    ELSE IF PathStatus(f, Follow(f, p)) = "ENOENT" /\ OptionIs(options, "throwIfNoEntry", FALSE)
    THEN Ok([defined |-> FALSE, stats |-> NoStats], f)
    ELSE Fail(OsError(PathStatus(f, Follow(f, p)), "stat", p), f)

\* An fs.writeFile that appends unless told otherwise.
FsWriteFileAppending(f, p, data, options) ==
    LET enc == IF EncodingOf(options) = "" THEN "utf8" ELSE EncodingOf(options)
        B == IF data.isBuffer THEN data.bytes ELSE EncodeText(data.text, enc)
        old == IF f[p].kind = "file" THEN f[p].bytes ELSE << >>
    IN
    IF enc \notin SupportedEncodings THEN Fail(ArgError("encoding"), f)
    ELSE IF ParentStatus(f, p) # "ok" THEN Fail(OsError(ParentStatus(f, p), "open", p), f)
    ELSE IF f[p].kind = "dir" THEN Fail(OsError("EISDIR", "open", p), f)
    ELSE IF FlagOf(options, "a") = "a" THEN Ok(Undef, [f EXCEPT ![p] = FileNode(old \o B)])
    ELSE Ok(Undef, [f EXCEPT ![p] = FileNode(B)])

\* fs.writeFile(path, data, options): flag "w" replaces the content,
\* "a" appends to it; a string is encoded (utf8 unless named otherwise).
FsWriteFile(f, p, data, options) ==
    LET enc == IF EncodingOf(options) = "" THEN "utf8" ELSE EncodingOf(options)
        flag == FlagOf(options, "w")
        B == IF data.isBuffer THEN data.bytes ELSE EncodeText(data.text, enc)
        old == IF f[p].kind = "file" THEN f[p].bytes ELSE << >>
    IN
    IF enc \notin SupportedEncodings THEN Fail(ArgError("encoding"), f)
    ELSE IF ParentStatus(f, p) # "ok" THEN Fail(OsError(ParentStatus(f, p), "open", p), f)
    ELSE IF f[p].kind = "dir" THEN Fail(OsError("EISDIR", "open", p), f)
    ELSE IF flag = "a" THEN Ok(Undef, [f EXCEPT ![p] = FileNode(old \o B)])
    ELSE Ok(Undef, [f EXCEPT ![p] = FileNode(B)])

\* fs.rm(path, options)
FsRm(f, p, options) ==
    IF PathStatus(f, p) # "ok" THEN
        IF OptionIs(options, "force", TRUE) /\ PathStatus(f, p) = "ENOENT" THEN Ok(Undef, f)
        ELSE Fail(OsError(PathStatus(f, p), "rm", p), f)
    ELSE IF f[p].kind = "dir" /\ ~OptionIs(options, "recursive", TRUE)
    THEN Fail(OsError("ERR_FS_EISDIR", "rm", p), f)
    ELSE Ok(Undef, [q \in Paths |-> IF q = p \/ Parent(q) = p THEN NoNode ELSE f[q]])

\* ------------------------------------------------------------ host processes
\* The server process's own working directory and environment.
ServerCwd == "/srv"
ServerEnv == [t |-> "env", of |-> "server"]

Script == "echo out; echo err >&2; exit 3"

\* What the host's programs do; output is a sequence of lines. A program
\* the host does not have is not found.
HostPrograms == {"echo", "pwd", "sh", "w", "["}

RunProgram(argv, cwd) ==
    IF argv[1] = "echo" THEN
        [stdout |-> SubSeq(argv, 2, Len(argv)), stderr |-> << >>, exit |-> 0]
    ELSE IF argv[1] = "pwd" THEN [stdout |-> << cwd >>, stderr |-> << >>, exit |-> 0]
    ELSE IF argv[1] = "w" THEN [stdout |-> << "up" >>, stderr |-> << >>, exit |-> 0]
    ELSE IF argv[1] = "[" THEN [stdout |-> << >>, stderr |-> << "[: missing ]" >>, exit |-> 2]
    ELSE IF argv = << "sh", "-c", Script >>
    THEN [stdout |-> << "out" >>, stderr |-> << "err" >>, exit |-> 3]
    ELSE [stdout |-> << >>, stderr |-> << >>, exit |-> 0]

\* The signal the host kills a child with (SIGKILL).
KillSignal == 9

\* What becomes of a started child: it runs to its end (signal 0), or the
\* host kills it before it has written anything.
HostRun(argv, cwd, host) ==
    IF host = "killed"
    THEN [stdout |-> << >>, stderr |-> << >>, exit |-> 0, signal |-> KillSignal]
    ELSE [signal |-> 0] @@ RunProgram(argv, cwd)

\* await proc.exited, and the exitCode of a shell command: a number always,
\* 128 + the signal for a child that a signal ended.
Exited(run) == IF run.signal # 0 THEN 128 + run.signal ELSE run.exit

\* JSON null in an exitCode field: apart from every exit status.
Null == -1

Launch(argv, cwd, env, run) ==
    [argv |-> argv, cwd |-> cwd, env |-> env, started |-> TRUE,
     exit |-> run.exit, signal |-> run.signal]
NoLaunch(argv, cwd, env) ==
    [argv |-> argv, cwd |-> cwd, env |-> env, started |-> FALSE, exit |-> 127, signal |-> 0]

\* ------------------------------------------------------------ handlers
\* A handler returns a value or throws; either way it leaves a world (the
\* filesystem and the shell's defaults) and the primitives it invoked.
Return(value, w, prims, launches) ==
    [kind |-> "return", payload |-> value, world |-> w, prims |-> prims, launches |-> launches]
Throw(err, w, prims, launches) ==
    [kind |-> "throw", payload |-> err, world |-> w, prims |-> prims, launches |-> launches]

WithFs(w, f) == [w EXCEPT !.fs = f]

\* An exists handler that catches the not-found error only.
existsQueryNotFoundOnly(w, input) ==
    LET r == FsAccess(w.fs, input.path.v) IN
    IF r.ok \/ r.error.errno = "ENOENT"
    THEN Return(Bool(r.ok), WithFs(w, r.fs), << "access" >>, << >>)
    ELSE Throw(r.error, WithFs(w, r.fs), << "access" >>, << >>)

existsQuery(w, input) ==
    LET r == FsAccess(w.fs, input.path.v)
    IN Return(Bool(r.ok), WithFs(w, r.fs), << "access" >>, << >>)

mkdirMutation(w, input) ==
    LET r == FsMkdir(w.fs, input.path.v, input.options) IN
    IF r.ok THEN Return(r.value, WithFs(w, r.fs), << "mkdir" >>, << >>)
    ELSE Throw(r.error, WithFs(w, r.fs), << "mkdir" >>, << >>)

PlainDirent(e) ==
    [t |-> "object", name |-> e.name, isSymbolicLink |-> e.isSymbolicLink,
     isFile |-> e.isFile, isDirectory |-> e.isDirectory]

readdirQuery(w, input, order) ==
    LET r == FsReaddir(w.fs, input.path.v, input.options, order) IN
    IF ~r.ok THEN Throw(r.error, WithFs(w, r.fs), << "readdir" >>, << >>)
    ELSE IF Len(r.value) > 0 /\ r.value[1].t = "Dirent"
    THEN Return(Arr([i \in 1..Len(r.value) |-> PlainDirent(r.value[i])]),
                WithFs(w, r.fs), << "readdir" >>, << >>)
    ELSE Return(Arr(r.value), WithFs(w, r.fs), << "readdir" >>, << >>)

\* A readFile handler that tags by the option it was given instead of by the
\* content it read.
readFileQueryTagByOption(w, input) ==
    LET r == FsReadFile(w.fs, input.path.v, input.options)
        named == IsString(input.options)
                 \/ (IsObject(input.options) /\ IsString(input.options.encoding))
    IN
    IF ~r.ok THEN Throw(r.error, WithFs(w, r.fs), << "readFile" >>, << >>)
    ELSE Return([t |-> "object", type |-> IF named THEN "string" ELSE "Buffer",
                 data |-> IF r.value.isBuffer THEN Txt(ToBase64(r.value.bytes))
                          ELSE Txt(r.value.text)],
                WithFs(w, r.fs), << "readFile" >>, << >>)

readFileQuery(w, input) ==
    LET r == FsReadFile(w.fs, input.path.v, input.options) IN
    IF ~r.ok THEN Throw(r.error, WithFs(w, r.fs), << "readFile" >>, << >>)
    ELSE IF r.value.isBuffer
    THEN Return([t |-> "object", type |-> "Buffer", data |-> Txt(ToBase64(r.value.bytes))],
                WithFs(w, r.fs), << "readFile" >>, << >>)
    ELSE Return([t |-> "object", type |-> "string", data |-> Txt(r.value.text)],
                WithFs(w, r.fs), << "readFile" >>, << >>)

\* The options statQuery hands to fs.stat: throwIfNoEntry is forced to true.
StatOptions(options) ==
    IF IsObject(options) THEN [options EXCEPT !.throwIfNoEntry = Bool(TRUE)]
    ELSE [t |-> "object", bigint |-> Undef, throwIfNoEntry |-> Bool(TRUE)]

UndefinedDeref == [name |-> "TypeError", errno |-> "", syscall |-> "", path |-> ""]

StatValue(st) ==
    [t |-> "object", size |-> st.size, isFile |-> st.isFile,
     isDirectory |-> st.isDirectory, isSymbolicLink |-> st.isSymbolicLink,
     bigint |-> st.bigint]

\* A stat handler that hands the caller's options to fs.stat as they are.
statQueryOwnOptions(w, input) ==
    LET r == FsStat(w.fs, input.path.v, input.options) IN
    IF ~r.ok THEN Throw(r.error, WithFs(w, r.fs), << "stat" >>, << >>)
    ELSE IF ~r.value.defined THEN Throw(UndefinedDeref, WithFs(w, r.fs), << "stat" >>, << >>)
    ELSE Return(StatValue(r.value.stats), WithFs(w, r.fs), << "stat" >>, << >>)

statQuery(w, input) ==
    LET r == FsStat(w.fs, input.path.v, StatOptions(input.options)) IN
    IF ~r.ok THEN Throw(r.error, WithFs(w, r.fs), << "stat" >>, << >>)
    ELSE IF ~r.value.defined THEN Throw(UndefinedDeref, WithFs(w, r.fs), << "stat" >>, << >>)
    ELSE Return(StatValue(r.value.stats), WithFs(w, r.fs), << "stat" >>, << >>)

\* Data handed on without decoding: the base64 text itself is written.
WriteDataUndecoded(data) ==
    IF IsObject(data) /\ data.type = Str("Buffer") THEN StringOf(data.data.cp)
    ELSE StringOf(data.cp)

\* The data writeFileMutation hands to fs.writeFile.
WriteData(data) ==
    IF IsObject(data) /\ data.type = Str("Buffer")
    THEN BufferOf(FromBase64(data.data.cp))
    ELSE StringOf(data.cp)

writeFileMutation(w, input) ==
    LET r == FsWriteFile(w.fs, input.path.v, WriteData(input.data), input.options) IN
    IF r.ok THEN Return([t |-> "object", success |-> TRUE], WithFs(w, r.fs), << "writeFile" >>, << >>)
    ELSE Throw(r.error, WithFs(w, r.fs), << "writeFile" >>, << >>)

\* A fileSize handler that counts the characters of the text.
fileSizeQueryLength(w, input) ==
    LET r == FsReadFile(w.fs, input.path.v, Str("utf8")) IN
    IF ~r.ok THEN Throw(r.error, WithFs(w, r.fs), << "readFile" >>, << >>)
    ELSE Return(Num(Len(r.value.text)), WithFs(w, r.fs), << "readFile" >>, << >>)

\* A fileSize handler that refuses what is no regular file.
fileSizeQueryFilesOnly(w, input) ==
    LET r == FsStat(w.fs, input.path.v, Undef) IN
    IF ~r.ok THEN Throw(r.error, WithFs(w, r.fs), << "stat" >>, << >>)
    ELSE IF ~r.value.stats.isFile
    THEN Throw(OsError("EISDIR", "stat", input.path.v), WithFs(w, r.fs), << "stat" >>, << >>)
    ELSE Return(Num(r.value.stats.size), WithFs(w, r.fs), << "stat" >>, << >>)

fileSizeQuery(w, input) ==
    LET r == FsStat(w.fs, input.path.v, Undef) IN
    IF ~r.ok THEN Throw(r.error, WithFs(w, r.fs), << "stat" >>, << >>)
    ELSE Return(Num(r.value.stats.size), WithFs(w, r.fs), << "stat" >>, << >>)

\* A delete handler that swallows what fs.rm raises.
deleteMutationLenient(w, input) ==
    LET r == FsRm(w.fs, input.path.v, input.options)
    IN Return([t |-> "object", success |-> TRUE], WithFs(w, r.fs), << "rm" >>, << >>)

deleteMutation(w, input) ==
    LET r == FsRm(w.fs, input.path.v, input.options) IN
    IF r.ok THEN Return([t |-> "object", success |-> TRUE], WithFs(w, r.fs), << "rm" >>, << >>)
    ELSE Throw(r.error, WithFs(w, r.fs), << "rm" >>, << >>)

\* input.options?.field
OptionOf(options, field) == IF IsObject(options) THEN options[field] ELSE Undef

\* A result whose success only says that there is an exit code.
ProcessOutputAnyCode(out, err, code) ==
    [t |-> "object", stdout |-> out, stderr |-> err, exitCode |-> code, success |-> code # Null]

ProcessOutput(out, err, code) ==
    [t |-> "object", stdout |-> out, stderr |-> err, exitCode |-> code, success |-> code = 0]

SpawnFailed(argv) == [name |-> "Error", errno |-> "ENOENT", syscall |-> "spawn", path |-> argv[1]]

\* A reading that takes the child's text whatever the stream's mode.
CapturedAlways(mode, text) == text

\* proc.stdout ? new Response(proc.stdout).text() : "": only a piped stream
\* is there to be read.
Captured(mode, text) == IF mode = "pipe" THEN text ELSE << >>

\* Bun.spawn(argv, {cwd, env, stdin, stdout, stderr}) and the reading of
\* its output: an undefined cwd or env is the server's own; a stream that is
\* not piped has no reader, and its text is empty.
spawnMutation(w, input, host) ==
    LET argv == [i \in 1..Len(input.command.v) |-> input.command.v[i].v]
        cwdOpt == OptionOf(input.options, "cwd")
        envOpt == OptionOf(input.options, "env")
        cwd == IF IsString(cwdOpt) THEN cwdOpt.v ELSE ServerCwd
        env == IF IsObject(envOpt) THEN envOpt ELSE ServerEnv
        outMode == IF IsString(OptionOf(input.options, "stdout"))
                   THEN OptionOf(input.options, "stdout").v ELSE "pipe"
        errMode == IF IsString(OptionOf(input.options, "stderr"))
                   THEN OptionOf(input.options, "stderr").v ELSE "pipe"
        run == HostRun(argv, cwd, host)
    IN
    IF argv[1] \notin HostPrograms
    THEN Throw(SpawnFailed(argv), w, << "spawn" >>, << NoLaunch(argv, cwd, env) >>)
    ELSE Return(ProcessOutput(Captured(outMode, run.stdout), Captured(errMode, run.stderr),
                              Exited(run)),
                w, << "spawn" >>, << Launch(argv, cwd, env, run) >>)

ShellError(run) ==
    [name |-> "ShellError", errno |-> "", syscall |-> "", path |-> "", exitCode |-> Exited(run)]

CommandNotFound(argv) ==
    [stdout |-> << >>, stderr |-> << "bun: command not found" >>, exit |-> 127, signal |-> 0]

\* $`${cmd} ${args}` under the shell's defaults: each interpolated string
\* is escaped, so it is one literal word of the command line; an array gives
\* one word per element. A non-zero exit status throws.
ShellRun(words, shell, host) ==
    IF words[1] \in HostPrograms
    THEN [run |-> HostRun(words, shell.cwd, host),
          launch |-> Launch(words, shell.cwd, shell.env, HostRun(words, shell.cwd, host))]
    ELSE [run |-> CommandNotFound(words),
          launch |-> NoLaunch(words, shell.cwd, shell.env)]

\* $.cwd(dir) and $.env(vars) set the defaults of every later command.
ShellDefaults(shell, options) ==
    LET cwdOpt == OptionOf(options, "cwd")
        envOpt == OptionOf(options, "env")
    IN [cwd |-> IF TruthyStr(cwdOpt) THEN cwdOpt.v ELSE shell.cwd,
        env |-> IF IsObject(envOpt) THEN envOpt ELSE shell.env]

\* An exec handler whose shell command does not throw (.nothrow()).
execMutationNothrow(w, input, host) ==
    LET shell == ShellDefaults(w.shell, input.options)
        r == ShellRun(input.command.chars, shell, host)
    IN Return(ProcessOutput(r.run.stdout, r.run.stderr, Exited(r.run)),
              [w EXCEPT !.shell = shell], << "shell" >>, << r.launch >>)

\* const [cmd, ...args] = input.command: a string is destructured into its
\* characters.
execMutation(w, input, host) ==
    LET shell == ShellDefaults(w.shell, input.options)
        cmd == Head(input.command.chars)
        args == Tail(input.command.chars)
        r == ShellRun(<< cmd >> \o args, shell, host)
        w2 == [w EXCEPT !.shell = shell]
    IN
    IF Exited(r.run) # 0 THEN Throw(ShellError(r.run), w2, << "shell" >>, << r.launch >>)
    ELSE Return(ProcessOutput(r.run.stdout, r.run.stderr, Exited(r.run)),
                w2, << "shell" >>, << r.launch >>)

\* ------------------------------------------------------------ input schemas
\* Each schema yields the issues zod reports: none when the input parses.
Issue(at, code) == [at |-> at, code |-> code]

ZString(x, at) == IF IsString(x) THEN {} ELSE {Issue(at, "invalid_type")}
ZOptString(x, at) == IF IsUndef(x) \/ IsString(x) THEN {} ELSE {Issue(at, "invalid_type")}
ZOptBoolean(x, at) == IF IsUndef(x) \/ IsBoolean(x) THEN {} ELSE {Issue(at, "invalid_type")}
ZOptNumber(x, at) == IF IsUndef(x) \/ IsNumber(x) THEN {} ELSE {Issue(at, "invalid_type")}

StdioModes == {"pipe", "inherit", "ignore"}
ZOptStdio(x, at) ==
    IF IsUndef(x) \/ (IsString(x) /\ x.v \in StdioModes) THEN {}
    ELSE {Issue(at, IF IsString(x) THEN "invalid_enum_value" ELSE "invalid_type")}

\* z.record(z.string()).optional(); the calls' environments hold one variable.
ZOptEnv(x, at) ==
    IF IsUndef(x) THEN {}
    ELSE IF ~IsObject(x) THEN {Issue(at, "invalid_type")}
    ELSE ZString(x.FOO, at)

existsInput(input) == ZString(input.path, "path")

mkdirInput(input) ==
    ZString(input.path, "path") \cup
    (IF IsUndef(input.options) THEN {}
     ELSE IF ~IsObject(input.options) THEN {Issue("options", "invalid_type")}
     ELSE ZOptBoolean(input.options.recursive, "options.recursive")
          \cup ZOptNumber(input.options.mode, "options.mode"))

readdirInput(input) ==
    ZString(input.path, "path") \cup
    (IF IsUndef(input.options) \/ IsString(input.options) THEN {}
     ELSE IF IsObject(input.options)
             /\ ZOptString(input.options.encoding, "") = {}
             /\ ZOptBoolean(input.options.withFileTypes, "") = {}
     THEN {}
     ELSE {Issue("options", "invalid_union")})

readFileInput(input) ==
    ZString(input.path, "path") \cup
    (IF IsUndef(input.options) \/ IsString(input.options) THEN {}
     ELSE IF IsObject(input.options)
             /\ ZOptString(input.options.encoding, "") = {}
             /\ ZOptString(input.options.flag, "") = {}
     THEN {}
     ELSE {Issue("options", "invalid_union")})

statInput(input) ==
    ZString(input.path, "path") \cup
    (IF IsUndef(input.options) THEN {}
     ELSE IF ~IsObject(input.options) THEN {Issue("options", "invalid_type")}
     ELSE ZOptBoolean(input.options.bigint, "options.bigint")
          \cup ZOptBoolean(input.options.throwIfNoEntry, "options.throwIfNoEntry"))

writeFileInput(input) ==
    ZString(input.path, "path") \cup
    (IF IsString(input.data) THEN {}
     ELSE IF IsObject(input.data) /\ input.data.type = Str("Buffer") /\ IsString(input.data.data)
     THEN {}
     ELSE {Issue("data", "invalid_union")}) \cup
    (IF IsUndef(input.options) \/ IsString(input.options) THEN {}
     ELSE IF IsObject(input.options)
             /\ ZOptString(input.options.encoding, "") = {}
             /\ ZOptNumber(input.options.mode, "") = {}
             /\ ZOptString(input.options.flag, "") = {}
     THEN {}
     ELSE {Issue("options", "invalid_union")})

fileSizeInput(input) == ZString(input.path, "path")

deleteInput(input) ==
    ZString(input.path, "path") \cup
    (IF IsUndef(input.options) THEN {}
     ELSE IF ~IsObject(input.options) THEN {Issue("options", "invalid_type")}
     ELSE ZOptBoolean(input.options.recursive, "options.recursive")
          \cup ZOptBoolean(input.options.force, "options.force"))

spawnInput(input) ==
    (IF ~IsArray(input.command) THEN {Issue("command", "invalid_type")}
     ELSE IF \E i \in 1..Len(input.command.v) : ~IsString(input.command.v[i])
     THEN {Issue("command", "invalid_type")}
     ELSE IF Len(input.command.v) < 1 THEN {Issue("command", "too_small")}
     ELSE {}) \cup
    (IF IsUndef(input.options) THEN {}
     ELSE IF ~IsObject(input.options) THEN {Issue("options", "invalid_type")}
     ELSE ZOptString(input.options.cwd, "options.cwd")
          \cup ZOptEnv(input.options.env, "options.env")
          \cup ZOptStdio(input.options.stdin, "options.stdin")
          \cup ZOptStdio(input.options.stdout, "options.stdout")
          \cup ZOptStdio(input.options.stderr, "options.stderr"))

execInput(input) ==
    ZString(input.command, "command") \cup
    (IF IsUndef(input.options) THEN {}
     ELSE IF ~IsObject(input.options) THEN {Issue("options", "invalid_type")}
     ELSE ZOptString(input.options.cwd, "options.cwd")
          \cup ZOptEnv(input.options.env, "options.env")
          \cup ZOptBoolean(input.options.shell, "options.shell"))

\* ------------------------------------------------------------ router
Queries == {"fs.exists", "fs.readdir", "fs.readFile", "fs.stat", "fs.fileSize"}
Mutations == {"fs.mkdir", "fs.writeFile", "fs.delete", "process.spawn", "process.exec"}
Procedures == Queries \cup Mutations

\* procedure.input(schema): the parser the procedure runs on its input.
InputIssues(op, input) ==
    CASE op = "fs.exists" -> existsInput(input)
      [] op = "fs.mkdir" -> mkdirInput(input)
      [] op = "fs.readdir" -> readdirInput(input)
      [] op = "fs.readFile" -> readFileInput(input)
      [] op = "fs.stat" -> statInput(input)
      [] op = "fs.writeFile" -> writeFileInput(input)
      [] op = "fs.fileSize" -> fileSizeInput(input)
      [] op = "fs.delete" -> deleteInput(input)
      [] op = "process.spawn" -> spawnInput(input)
      [] op = "process.exec" -> execInput(input)

\* .query(handler) / .mutation(handler): the resolver of each procedure.
\* host is what the host decides during the call: the order of a directory
\* listing ("asc", "desc"), the fate of a child ("runs", "killed").
Resolve(op, input, w, host) ==
    CASE op = "fs.exists" -> existsQuery(w, input)
      [] op = "fs.mkdir" -> mkdirMutation(w, input)
      [] op = "fs.readdir" -> readdirQuery(w, input, host)
      [] op = "fs.readFile" -> readFileQuery(w, input)
      [] op = "fs.stat" -> statQuery(w, input)
      [] op = "fs.writeFile" -> writeFileMutation(w, input)
      [] op = "fs.fileSize" -> fileSizeQuery(w, input)
      [] op = "fs.delete" -> deleteMutation(w, input)
      [] op = "process.spawn" -> spawnMutation(w, input, host)
      [] op = "process.exec" -> execMutation(w, input, host)

\* The error a response carries: initTRPC.create() sets no errorFormatter, so
\* it is the default shape: the message, a numeric code, and data naming the
\* code, the HTTP status and the procedure, with the stack unless the server
\* runs in production mode.
ErrorShape(message, code, dev, op) ==
    [message |-> message,
     code |-> IF code = "BAD_REQUEST" THEN -32600 ELSE -32603,
     data |-> IF dev
              THEN [code |-> code, httpStatus |-> IF code = "BAD_REQUEST" THEN 400 ELSE 500,
                    path |-> op, stack |-> "stack"]
              ELSE [code |-> code, httpStatus |-> IF code = "BAD_REQUEST" THEN 400 ELSE 500,
                    path |-> op]]

ResultResponse(value) == [kind |-> "result", data |-> value]
ErrorResponse(shape) == [kind |-> "error", error |-> shape]

\* One call: the input is parsed first; only a parsed input reaches the
\* resolver, once; what the resolver throws becomes the error response.
Respond(h, dev, op) ==
    [resp |-> IF h.kind = "return" THEN ResultResponse(h.payload)
              ELSE ErrorResponse(ErrorShape(h.payload, "INTERNAL_SERVER_ERROR", dev, op)),
     world |-> h.world, invoked |-> 1, prims |-> h.prims, launches |-> h.launches]

\* A dispatcher whose spawn procedure parses the command only.
DispatchCommandOnly(op, input, w, host, dev) ==
    LET issues == IF op = "process.spawn"
                  THEN spawnInput([command |-> input.command, options |-> Undef])
                  ELSE InputIssues(op, input)
    IN
    IF issues # {}
    THEN [resp |-> ErrorResponse(ErrorShape([issues |-> issues], "BAD_REQUEST", dev, op)),
          world |-> w, invoked |-> 0, prims |-> << >>, launches |-> << >>]
    ELSE Respond(Resolve(op, input, w, host), dev, op)

\* A dispatcher that calls the resolver a second time when it throws.
DispatchRetrying(op, input, w, host, dev) ==
    LET issues == InputIssues(op, input)
        first == Resolve(op, input, w, host)
        second == Resolve(op, input, first.world, host)
    IN
    IF issues # {}
    THEN [resp |-> ErrorResponse(ErrorShape([issues |-> issues], "BAD_REQUEST", dev, op)),
          world |-> w, invoked |-> 0, prims |-> << >>, launches |-> << >>]
    ELSE IF first.kind = "return" THEN Respond(first, dev, op)
    ELSE [Respond(second, dev, op) EXCEPT
            !.invoked = 2, !.prims = first.prims \o second.prims,
            !.launches = first.launches \o second.launches]

Dispatch(op, input, w, host, dev) ==
    LET issues == InputIssues(op, input) IN
    IF issues # {}
    THEN [resp |-> ErrorResponse(ErrorShape([issues |-> issues], "BAD_REQUEST", dev, op)),
          world |-> w, invoked |-> 0, prims |-> << >>, launches |-> << >>]
    ELSE Respond(Resolve(op, input, w, host), dev, op)

\* ------------------------------------------------------------ the calls made
\* The inputs the calls carry: those each schema accepts, and some it rejects.
PathVals == {Str(p) : p \in Paths}
BadPathVals == {Undef, Num(0)}

MkdirOpt(r, m) == [t |-> "object", recursive |-> r, mode |-> m]
ReaddirOpt(e, w) == [t |-> "object", encoding |-> e, withFileTypes |-> w]
ReadFileOpt(e, f) == [t |-> "object", encoding |-> e, flag |-> f]
StatOpt(b, th) == [t |-> "object", bigint |-> b, throwIfNoEntry |-> th]
WriteFileOpt(e, m, f) == [t |-> "object", encoding |-> e, mode |-> m, flag |-> f]
DeleteOpt(r, f) == [t |-> "object", recursive |-> r, force |-> f]
SpawnOpt(c, e, i, o, r) ==
    [t |-> "object", cwd |-> c, env |-> e, stdin |-> i, stdout |-> o, stderr |-> r]
ExecOpt(c, e, sh) == [t |-> "object", cwd |-> c, env |-> e, shell |-> sh]
EnvObj(x) == [t |-> "object", FOO |-> x]
BufferObj(ty, d) == [t |-> "object", type |-> Str(ty), data |-> d]

ExistsInputs == {[path |-> x] : x \in PathVals \cup BadPathVals}
FileSizeInputs == {[path |-> x] : x \in PathVals \cup BadPathVals}

MkdirInputs ==
    {[path |-> x, options |-> o] :
        x \in PathVals,
        o \in {Undef, MkdirOpt(Bool(TRUE), Undef), MkdirOpt(Bool(FALSE), Num(493))}}
    \cup {[path |-> x, options |-> Undef] : x \in BadPathVals}
    \cup {[path |-> Str("/d"), options |-> MkdirOpt(Str("yes"), Undef)]}

ReaddirInputs ==
    {[path |-> Str("/d"), options |-> o] :
        o \in {Str("utf8"), ReaddirOpt(Undef, Bool(TRUE)),
               ReaddirOpt(Str("buffer"), Undef), ReaddirOpt(Str("utf8"), Bool(FALSE))}}
    \cup {[path |-> x, options |-> Undef] : x \in PathVals \cup BadPathVals}
    \cup {[path |-> Str("/d"), options |-> o] :
            o \in {Num(1), ReaddirOpt(Undef, Str("yes"))}}

ReadFileInputs ==
    {[path |-> Str("/d/x"), options |-> o] :
        o \in {Str("utf8"), ReadFileOpt(Undef, Undef),
               ReadFileOpt(Str("latin1"), Undef), ReadFileOpt(Str(""), Undef),
               ReadFileOpt(Str("bogus"), Undef), ReadFileOpt(Undef, Str("w+")),
               ReadFileOpt(Str("utf-8"), Str("r"))}}
    \cup {[path |-> x, options |-> Undef] : x \in PathVals \cup BadPathVals}
    \cup {[path |-> Str("/d"), options |-> Bool(TRUE)]}

StatInputs ==
    {[path |-> Str("/d/x"), options |-> o] :
        o \in {StatOpt(Undef, Undef), StatOpt(Bool(TRUE), Undef),
               StatOpt(Bool(TRUE), Bool(FALSE))}}
    \cup {[path |-> x, options |-> o] :
            x \in PathVals, o \in {Undef, StatOpt(Undef, Bool(FALSE))}}
    \cup {[path |-> x, options |-> Undef] : x \in BadPathVals}
    \cup {[path |-> Str("/d"), options |-> StatOpt(Undef, Str("no"))]}

\* The bytes and the texts written: one, two and three bytes, so that every
\* base64 padding occurs; a byte no UTF-8 text holds; a two-byte character.
BinaryPayloads == {<< 72 >>, << 72, 255 >>, << 255, 72, 233 >>}
TextPayloads == {<< 72 >>, << 233 >>}

WriteFileInputs ==
    {[path |-> Str("/d/x"), data |-> d, options |-> o] :
        d \in {Txt(c) : c \in TextPayloads}
              \cup {BufferObj("Buffer", Txt(ToBase64(B))) : B \in BinaryPayloads},
        o \in {Undef, Str("utf8"), WriteFileOpt(Str("utf-8"), Undef, Undef),
               WriteFileOpt(Undef, Num(420), Str("a"))}}
    \cup {[path |-> x, data |-> Txt(<< 72 >>), options |-> Undef] :
            x \in PathVals \cup BadPathVals}
    \cup {[path |-> Str("/d"), data |-> d, options |-> Undef] :
            d \in {Undef, BufferObj("Buffer", Arr(<< 72 >>)),
                   BufferObj("Blob", Txt(ToBase64(<< 72 >>)))}}
    \cup {[path |-> Str("/d"), data |-> Txt(<< 72 >>), options |-> Num(1)]}

DeleteInputs ==
    {[path |-> Str("/d"), options |-> o] :
        o \in {DeleteOpt(Bool(TRUE), Undef), DeleteOpt(Bool(TRUE), Bool(TRUE))}}
    \cup {[path |-> x, options |-> o] :
            x \in PathVals, o \in {Undef, DeleteOpt(Undef, Bool(TRUE))}}
    \cup {[path |-> Str("/d/y"), options |-> DeleteOpt(Undef, Bool(FALSE))]}
    \cup {[path |-> x, options |-> Undef] : x \in BadPathVals}
    \cup {[path |-> Str("/d"), options |-> DeleteOpt(Undef, Str("yes"))]}

Words(ws) == Arr([i \in 1..Len(ws) |-> Str(ws[i])])
ModeVals == {Undef} \cup {Str(m) : m \in StdioModes}

SpawnInputs ==
    {[command |-> Words(<< "sh", "-c", Script >>),
      options |-> SpawnOpt(Undef, Undef, Undef, m[1], m[2])] :
        m \in ({Undef} \X ModeVals) \cup (ModeVals \X {Undef})
              \cup {<< Str("ignore"), Str("inherit") >>}}
    \cup {[command |-> Words(c), options |-> o] :
            c \in {<< "echo", "hi" >>, << "pwd" >>, << "sh", "-c", Script >>, << "nosuch" >>},
            o \in {Undef, SpawnOpt(Str("/tmp"), EnvObj(Str("1")), Str("ignore"), Undef, Undef)}}
    \cup {[command |-> c, options |-> Undef] :
            c \in {Arr(<< >>), Str("ls"), Arr(<< Num(1) >>), Undef}}
    \cup {[command |-> Words(<< "pwd" >>), options |-> o] :
            o \in {SpawnOpt(Undef, Undef, Undef, Str("file"), Undef),
                   SpawnOpt(Undef, EnvObj(Num(1)), Undef, Undef, Undef)}}

\* A command string, as its characters.
Cmd(chars) == [t |-> "string", chars |-> chars]
EchoPipe ==
    << "e", "c", "h", "o", " ", "h", "i", " ", "|", " ",
       "t", "r", " ", "a", "-", "z", " ", "A", "-", "Z" >>

ExecInputs ==
    {[command |-> Cmd(c), options |-> o] :
        c \in {EchoPipe, << "[" >>, << "w" >>},
        o \in {Undef, ExecOpt(Str("/tmp"), Undef, Undef),
               ExecOpt(Undef, EnvObj(Str("1")), Undef),
               ExecOpt(Str(""), Undef, Bool(TRUE))}}
    \cup {[command |-> c, options |-> Undef] : c \in {Undef, Words(<< "echo", "hi" >>)}}
    \cup {[command |-> Cmd(<< "w" >>), options |-> ExecOpt(Num(1), Undef, Undef)]}

\* The process calls with what the host does to the child: most run to
\* their end, some are killed by a signal.
SpawnCalls ==
    {[input |-> i, host |-> "runs"] : i \in SpawnInputs}
    \cup {[input |-> [command |-> Words(c), options |-> Undef], host |-> "killed"] :
            c \in {<< "pwd" >>, << "nosuch" >>}}
ExecCalls ==
    {[input |-> i, host |-> "runs"] : i \in ExecInputs}
    \cup {[input |-> [command |-> Cmd(<< "w" >>), options |-> Undef], host |-> "killed"]}

\* ------------------------------------------------------------ client stubs
\* What the transport's JSON serialisation makes of an argument: a native
\* Buffer becomes {type: "Buffer", data: [its bytes]}; JSON values stay.
ToJSON(x) == IF x.t = "NativeBuffer" THEN BufferObj("Buffer", Arr(x.bytes)) ELSE x

NativeBuffer(B) == [t |-> "NativeBuffer", bytes |-> B]

\* createFsClient(url).writeFile(path, data, options): the arguments are
\* handed to the writeFile mutation as they are.
ClientWriteFileInput(path, data, options) ==
    [path |-> ToJSON(path), data |-> ToJSON(data), options |-> ToJSON(options)]

\* ------------------------------------------------------------ state
VARIABLES
    fs,      \* the host filesystem: the node at each path
    shell,   \* the defaults of Bun's shell ($): cwd and env
    last,    \* the call handled last, and what became of it
    written, \* the latest binary write whose file no call has changed since
    child    \* the child of a process call at work, its pipes and their readers

vars == << fs, shell, last, written, child >>

NoCall ==
    [op |-> "none", via |-> "none", input |-> Undef, native |-> Undef,
     resp |-> [kind |-> "none"], invoked |-> 0, prims |-> << >>, launches |-> << >>,
     fsChanged |-> FALSE, shellBefore |-> [cwd |-> ServerCwd, env |-> ServerEnv]]

\* No binary write stands.
NoWrite == [path |-> "", bytes |-> << >>]

\* No process call is at work.
Streams == {"stdout", "stderr"}
NoChild ==
    [pc |-> "none", op |-> "none", state |-> "none", todo |-> << >>, open |-> FALSE,
     pipe |-> [s \in Streams |-> << >>], wrote |-> [s \in Streams |-> << >>],
     read |-> [s \in Streams |-> << >>], eof |-> [s \in Streams |-> FALSE],
     exit |-> 0, signal |-> 0, result |-> [kind |-> "none"]]

\* The router's mode: the server is started as the README shows, with no
\* NODE_ENV=production, so error shapes are the development ones.
IsDev == TRUE

\* The binary write that stands after a call: the path and the bytes B of a
\* successful writeFile of {type: "Buffer", data: base64(B)} that replaces the
\* content. It stands no longer once a call writes to the path or changes
\* the file there.
Written(op, input, d, w, f) ==
    IF op = "fs.writeFile" /\ d.invoked = 1 /\ d.resp.kind = "result"
       /\ IsObject(input.data) /\ FlagOf(input.options, "w") = "w"
       /\ \E B \in BinaryPayloads : input.data.data.cp = ToBase64(B)
    THEN [path |-> input.path.v,
          bytes |-> CHOOSE B \in BinaryPayloads : input.data.data.cp = ToBase64(B)]
    ELSE IF op = "fs.writeFile" /\ d.invoked = 1 /\ w.path = input.path.v THEN NoWrite
    ELSE IF w.path # "" /\ d.world.fs[w.path] # f[w.path] THEN NoWrite
    ELSE w

Init ==
    /\ fs = [p \in Paths |-> NoNode]
    /\ shell = [cwd |-> ServerCwd, env |-> ServerEnv]
    /\ last = NoCall
    /\ written = NoWrite
    /\ child = NoChild

\* An appending write stays within MaxLen.
WithinBounds(op, input, d) ==
    (op = "fs.writeFile" /\ d.invoked = 1 /\ FlagOf(input.options, "w") = "a")
        => Len(d.world.fs[input.path.v].bytes) <= MaxLen

\* The server handles one call: op with input, sent by via.
Serve(op, input, host, via, native) ==
    \E d \in {Dispatch(op, input, [fs |-> fs, shell |-> shell], host, IsDev)} :
    /\ WithinBounds(op, input, d)
    /\ fs' = d.world.fs
    /\ shell' = d.world.shell
    /\ last' = [op |-> op, via |-> via, input |-> input, native |-> native,
                resp |-> d.resp, invoked |-> d.invoked, prims |-> d.prims,
                launches |-> d.launches, fsChanged |-> (d.world.fs # fs),
                shellBefore |-> shell]
    /\ written' = Written(op, input, d, written, fs)
    /\ child' = child

exists ==
    /\ \E input \in ExistsInputs : Serve("fs.exists", input, "asc", "wire", Undef)
mkdir ==
    /\ \E input \in MkdirInputs : Serve("fs.mkdir", input, "asc", "wire", Undef)
readdir ==
    /\ \E input \in ReaddirInputs, order \in {"asc", "desc"} :
        Serve("fs.readdir", input, order, "wire", Undef)
readFile ==
    /\ \E input \in ReadFileInputs : Serve("fs.readFile", input, "asc", "wire", Undef)
stat ==
    /\ \E input \in StatInputs : Serve("fs.stat", input, "asc", "wire", Undef)
writeFile ==
    /\ \E input \in WriteFileInputs : Serve("fs.writeFile", input, "asc", "wire", Undef)
fileSize ==
    /\ \E input \in FileSizeInputs : Serve("fs.fileSize", input, "asc", "wire", Undef)
delete ==
    /\ \E input \in DeleteInputs : Serve("fs.delete", input, "asc", "wire", Undef)
spawn ==
    /\ \E c \in SpawnCalls : Serve("process.spawn", c.input, c.host, "wire", Undef)
exec ==
    /\ \E c \in ExecCalls : Serve("process.exec", c.input, c.host, "wire", Undef)

\* A caller of the filesystem client writes a file: text, a base64 object,
\* or a native Buffer.
clientWriteFile ==
    /\ \E p \in {Str("/d/x")},
          data \in {Txt(<< 72 >>), BufferObj("Buffer", Txt(ToBase64(<< 72, 255 >>)))}
                   \cup {NativeBuffer(B) : B \in BinaryPayloads} :
        Serve("fs.writeFile", ClientWriteFileInput(p, data, Undef), "asc", "client", data)

Next ==
    \/ exists \/ mkdir \/ readdir \/ readFile \/ stat
    \/ writeFile \/ fileSize \/ delete
    \/ spawn \/ exec
    \/ clientWriteFile

Spec == Init /\ [][Next]_vars

\* ------------------------------------------------------------ client calls
\* createFsClient(url): the object returned, one method per field. Called
\* with (path, data, options), a method makes one call of the kind shown
\* (client.fs.<name>.query or .mutate) with the input object it builds.
createFsClient(a) ==
    [exists |-> [op |-> "fs.exists", kind |-> "query", input |-> [path |-> ToJSON(a.path)]],
     mkdir |-> [op |-> "fs.mkdir", kind |-> "mutate",
                input |-> [path |-> ToJSON(a.path), options |-> ToJSON(a.options)]],
     readdir |-> [op |-> "fs.readdir", kind |-> "query",
                  input |-> [path |-> ToJSON(a.path), options |-> ToJSON(a.options)]],
     readFile |-> [op |-> "fs.readFile", kind |-> "query",
                   input |-> [path |-> ToJSON(a.path), options |-> ToJSON(a.options)]],
     stat |-> [op |-> "fs.stat", kind |-> "query",
               input |-> [path |-> ToJSON(a.path), options |-> ToJSON(a.options)]],
     writeFile |-> [op |-> "fs.writeFile", kind |-> "mutate",
                    input |-> ClientWriteFileInput(a.path, a.data, a.options)],
     fileSize |-> [op |-> "fs.fileSize", kind |-> "query", input |-> [path |-> ToJSON(a.path)]],
     delete |-> [op |-> "fs.delete", kind |-> "mutate",
                 input |-> [path |-> ToJSON(a.path), options |-> ToJSON(a.options)]]]

\* A process client whose exec asks for a query.
createProcessClientQuery(a) ==
    [spawn |-> [op |-> "process.spawn", kind |-> "mutate", input |-> a],
     exec |-> [op |-> "process.exec", kind |-> "query", input |-> a]]

\* createProcessClient(url): spawn(args) and exec(args) hand args to the
\* mutation as the input.
createProcessClient(a) ==
    [spawn |-> [op |-> "process.spawn", kind |-> "mutate", input |-> a],
     exec |-> [op |-> "process.exec", kind |-> "mutate", input |-> a]]

\* The call a stub makes reaches the server; last keeps the stub's name, its
\* arguments and the kind of call it made.
ServeStub(m, a, call) ==
    Serve(call.op, call.input, IF call.op \in {"process.spawn", "process.exec"} THEN "runs" ELSE "asc",
          call.kind, [t |-> "stub", method |-> m, args |-> a])

\* A caller of the filesystem client calls one of its methods with arguments
\* of the method's parameter types: path: string, data: string |
\* {type: "Buffer", data: string}, options as each method declares them.
fsClient ==
    /\ \E m \in DOMAIN createFsClient([path |-> Undef, data |-> Undef, options |-> Undef]),
          p \in PathVals :
        \E a \in {[path |-> p, data |-> d, options |-> o] :
                    d \in IF m = "writeFile"
                          THEN {Txt(<< 72 >>), BufferObj("Buffer", Txt(ToBase64(<< 72, 255 >>)))}
                          ELSE {Undef},
                    o \in CASE m \in {"exists", "fileSize"} -> {Undef}
                            [] m = "mkdir" ->
                                {Undef, MkdirOpt(Bool(TRUE), Undef), MkdirOpt(Undef, Num(493))}
                            [] m = "readdir" ->
                                {Undef, Str("utf8"), ReaddirOpt(Undef, Bool(TRUE))}
                            [] m = "readFile" ->
                                {Undef, Str("utf8"), ReadFileOpt(Str("utf-8"), Str("r"))}
                            [] m = "stat" -> {Undef, StatOpt(Bool(FALSE), Undef)}
                            [] m = "writeFile" ->
                                {Undef, Str("utf8"), WriteFileOpt(Undef, Num(420), Str("w"))}
                            [] m = "delete" ->
                                {Undef, DeleteOpt(Bool(TRUE), Bool(TRUE))}} :
            ServeStub(m, a, createFsClient(a)[m])

\* A caller of the process client calls spawn with a SpawnInput (command:
\* string[]) or exec with an ExecInput (command: string).
processClient ==
    /\ \E m \in DOMAIN createProcessClient(Undef) :
        \E a \in IF m = "spawn"
                 THEN {[command |-> Words(c), options |-> o] :
                        c \in {<< "echo", "hi" >>, << "pwd" >>, << >>},
                        o \in {Undef, SpawnOpt(Str("/tmp"), EnvObj(Str("1")), Str("ignore"),
                                               Str("pipe"), Undef)}}
                 ELSE {[command |-> Cmd(c), options |-> o] :
                        c \in {EchoPipe, << "w" >>},
                        o \in {Undef, ExecOpt(Str("/tmp"), EnvObj(Str("1")), Bool(TRUE))}} :
            ServeStub(m, a, createProcessClient(a)[m])

ClientNext == fsClient \/ processClient

ClientSpec == Init /\ [][ClientNext]_vars

\* ------------------------------------------------------------ file lifecycle
\* The README's sequence on one path p with one text s: writeFile, readFile,
\* fileSize, delete, exists. last.native keeps the sequence's path, text and
\* step; aside marks a call made in between on another path.
Hello == << 104, 101, 108, 108, 111 >>
Lifecycle(p, s, step, aside) ==
    [t |-> "lifecycle", path |-> p, text |-> s, step |-> step, aside |-> aside]
InLifecycle ==
    /\ last.native.t = "lifecycle"
    /\ last.native.step < 5
    /\ last.native.aside \/ last.resp.kind = "result"

\* writeFile(p, s, {encoding: "utf-8"}) starts the sequence.
lifecycleWrite ==
    /\ ~InLifecycle
    /\ \E p \in Paths, s \in {Hello, << 233 >>, << >>} :
        Serve("fs.writeFile",
              [path |-> Str(p), data |-> Txt(s),
               options |-> WriteFileOpt(Str("utf-8"), Undef, Undef)],
              "asc", "wire", Lifecycle(p, s, 1, FALSE))

\* The next call of the sequence: readFile(p, {encoding: "utf-8"}),
\* fileSize(p), delete(p), exists(p).
lifecycleStep ==
    /\ InLifecycle
    /\ \E c \in {[step |-> 1, op |-> "fs.readFile",
                  input |-> [path |-> Str(last.native.path),
                             options |-> ReadFileOpt(Str("utf-8"), Undef)]],
                 [step |-> 2, op |-> "fs.fileSize", input |-> [path |-> Str(last.native.path)]],
                 [step |-> 3, op |-> "fs.delete",
                  input |-> [path |-> Str(last.native.path), options |-> Undef]],
                 [step |-> 4, op |-> "fs.exists", input |-> [path |-> Str(last.native.path)]]} :
        /\ c.step = last.native.step
        /\ Serve(c.op, c.input, "asc", "wire",
                 Lifecycle(last.native.path, last.native.text, c.step + 1, FALSE))

\* Any other call: outside a sequence on any path, within one on a path
\* that is neither p nor above it.
lifecycleOther ==
    /\ \E q \in IF InLifecycle THEN {"/d/x", "/d/y"} \ {last.native.path} ELSE Paths :
        \E c \in {[op |-> "fs.mkdir", input |-> [path |-> Str(q), options |-> Undef]],
                  [op |-> "fs.writeFile",
                   input |-> [path |-> Str(q), data |-> Txt(<< 72, 72 >>), options |-> Undef]],
                  [op |-> "fs.readFile", input |-> [path |-> Str(q), options |-> Undef]],
                  [op |-> "fs.delete",
                   input |-> [path |-> Str(q),
                              options |-> DeleteOpt(Bool(TRUE), Undef)]]} :
            Serve(c.op, c.input, "asc", "wire",
                  IF InLifecycle
                  THEN Lifecycle(last.native.path, last.native.text, last.native.step, TRUE)
                  ELSE Undef)

LifecycleNext == lifecycleWrite \/ lifecycleStep \/ lifecycleOther

LifecycleSpec == Init /\ [][LifecycleNext]_vars

\* ------------------------------------------------------------ symbolic links
\* A host whose directory /d holds a symbolic link y, to x (there or not)
\* or to /d itself, beside whatever x is.
LinkInit ==
    /\ fs \in {[p \in Paths |-> IF p = "/d" THEN DirNode ELSE IF p = "/d/x" THEN x ELSE y] :
                x \in {NoNode, DirNode, FileNode(<< 72 >>)},
                y \in {LinkNode("/d/x"), LinkNode("/d"), FileNode(<< >>)}}
    /\ shell = [cwd |-> ServerCwd, env |-> ServerEnv]
    /\ last = NoCall
    /\ written = NoWrite
    /\ child = NoChild

LinkSpec == LinkInit /\ [][stat \/ readdir \/ fileSize]_vars

\* A process call step by step, stdout and stderr piped. The child's program
\* is the streams it writes to, in order, one chunk each; a pipe holds
\* PipeCap chunks, and a write to a full pipe waits.
PipeCap == 1
MaxWrites == 3

\* Bun.spawn(...) / $`...`: the child is created, its pipes are open, and
\* (Promise.all over both streams) a reader is at work on each.
processStart ==
    /\ child.pc \in {"none", "returned"}
    /\ \E op \in {"process.spawn", "process.exec"}, n \in 0..MaxWrites, code \in {0, 3} :
        \E prog \in [1..n -> Streams] :
            child' = [NoChild EXCEPT !.pc = "reading", !.op = op, !.state = "Created",
                                     !.todo = prog, !.open = TRUE, !.exit = code]
    /\ UNCHANGED << fs, shell, last, written >>

\* The child's next step: it starts to run; it writes its next chunk, the
\* pipe having room; its program done, it exits and its pipes close.
childRuns ==
    /\ child.state \in {"Created", "Running"}
    /\ \/ /\ child.state = "Created"
          /\ child' = [child EXCEPT !.state = "Running"]
       \/ /\ child.state = "Running" /\ child.todo # << >>
          /\ Len(child.pipe[Head(child.todo)]) < PipeCap
          /\ \E s \in {Head(child.todo)},
                c \in {Len(child.wrote.stdout) + Len(child.wrote.stderr) + 1} :
                child' = [child EXCEPT !.todo = Tail(child.todo),
                                       !.pipe[s] = Append(child.pipe[s], c),
                                       !.wrote[s] = Append(child.wrote[s], c)]
       \/ /\ child.state = "Running" /\ child.todo = << >>
          /\ child' = [child EXCEPT !.state = "Exited", !.open = FALSE]
    /\ UNCHANGED << fs, shell, last, written >>

\* The host kills the child; its pipes close with what they hold.
childKilled ==
    /\ child.state \in {"Created", "Running"}
    /\ child' = [child EXCEPT !.state = "Killed", !.open = FALSE, !.signal = KillSignal]
    /\ UNCHANGED << fs, shell, last, written >>

\* A reader that takes up stderr only once stdout has ended.
readStreamInTurn(s) ==
    /\ child.pc = "reading" /\ ~child.eof[s]
    /\ s = "stderr" => child.eof.stdout
    /\ child.pipe[s] # << >> \/ ~child.open
    /\ child' = IF child.pipe[s] # << >>
                THEN [child EXCEPT !.read[s] = child.read[s] \o child.pipe[s],
                                   !.pipe[s] = << >>]
                ELSE [child EXCEPT !.eof[s] = TRUE]
    /\ UNCHANGED << fs, shell, last, written >>

\* new Response(proc.stdout).text(), new Response(proc.stderr).text(): the
\* reader of stream s takes what the pipe holds, and ends at end-of-stream
\* (the pipe empty and closed).
readStream(s) ==
    /\ child.pc = "reading" /\ ~child.eof[s]
    /\ child.pipe[s] # << >> \/ ~child.open
    /\ child' = IF child.pipe[s] # << >>
                THEN [child EXCEPT !.read[s] = child.read[s] \o child.pipe[s],
                                   !.pipe[s] = << >>]
                ELSE [child EXCEPT !.eof[s] = TRUE]
    /\ UNCHANGED << fs, shell, last, written >>

\* A return that waits for the child's end only, not for the readers.
processReturnUnread ==
    /\ child.pc = "reading"
    /\ child.state \in {"Exited", "Killed"}
    /\ \E code \in {Exited([exit |-> child.exit, signal |-> child.signal])} :
        child' = [child EXCEPT !.pc = "returned",
                    !.result = ResultResponse(
                        ProcessOutput(child.read.stdout, child.read.stderr, code))]
    /\ UNCHANGED << fs, shell, last, written >>

\* Both readers done (Promise.all) and the child ended (await proc.exited):
\* the handler returns its ProcessOutput; $ throws on a non-zero status.
processReturn ==
    /\ child.pc = "reading"
    /\ child.eof.stdout /\ child.eof.stderr
    /\ child.state \in {"Exited", "Killed"}
    /\ \E code \in {Exited([exit |-> child.exit, signal |-> child.signal])} :
        child' = [child EXCEPT !.pc = "returned",
                    !.result = IF child.op = "process.exec" /\ code # 0
                               THEN [kind |-> "error"]
                               ELSE ResultResponse(
                                    ProcessOutput(child.read.stdout, child.read.stderr, code))]
    /\ UNCHANGED << fs, shell, last, written >>

PipeNext ==
    \/ processStart \/ childRuns \/ childKilled
    \/ readStream("stdout") \/ readStream("stderr")
    \/ processReturn

\* The host runs a child that can take a step, and the server's event loop
\* runs a reader or a continuation that is ready; nothing obliges the host
\* to kill a child.
PipeSpec ==
    /\ Init /\ [][PipeNext]_vars
    /\ WF_vars(childRuns)
    /\ WF_vars(readStream("stdout")) /\ WF_vars(readStream("stderr"))
    /\ WF_vars(processReturn)

\* ------------------------------------------------------------ properties
Called == last.op # "none"
Parsed == Called /\ InputIssues(last.op, last.input) = {}
Failed == last.resp.kind = "error"
Succeeded == last.resp.kind = "result"

\* C1: a call whose input violates its operation's input schema is answered
\* with a validation error; its handler is never invoked, no primitive runs,
\* no process is launched, and the filesystem and the shell's defaults are
\* left as they were.
ValidationRejects ==
    (Called /\ InputIssues(last.op, last.input) # {}) =>
        /\ Failed
        /\ last.resp.error.data.code = "BAD_REQUEST"
        /\ last.invoked = 0
        /\ last.prims = << >> /\ last.launches = << >>
        /\ ~last.fsChanged
        /\ shell = last.shellBefore

\* A delete whose options do not parse was refused while the directory it
\* names exists.
ValidationRejects_witness ==
    /\ last.op = "fs.delete" /\ last.input.path = Str("/d")
    /\ InputIssues(last.op, last.input) # {}
    /\ fs["/d"].kind = "dir" /\ fs["/d/x"].kind = "file"
    /\ Failed

\* The directory and the environment an exec call asks for: its own input's,
\* or the server's own where the input names none.
OwnCwd(options) ==
    IF TruthyStr(OptionOf(options, "cwd")) THEN OptionOf(options, "cwd").v ELSE ServerCwd
OwnEnv(options) ==
    IF IsObject(OptionOf(options, "env")) THEN OptionOf(options, "env") ELSE ServerEnv

\* C2: no call depends on an earlier one: the working directory and the
\* environment an exec call runs its command in are those of its own input.
ExecSettingsAreOwn ==
    (last.op = "process.exec" /\ Parsed) =>
        \A i \in 1..Len(last.launches) :
            /\ last.launches[i].cwd = OwnCwd(last.input.options)
            /\ last.launches[i].env = OwnEnv(last.input.options)

\* C3: a spawn or exec whose child started and exited non-zero is a successful
\* call: a result carrying that exit code and success false.
NonZeroExitIsResult ==
    (last.op \in {"process.spawn", "process.exec"} /\ Parsed
       /\ Len(last.launches) = 1 /\ last.launches[1].started
       /\ last.launches[1].exit # 0) =>
        /\ Succeeded
        /\ last.resp.data.exitCode = last.launches[1].exit
        /\ last.resp.data.success = FALSE

\* C4: exec hands its command string to a shell as a command line: the call
\* exec({command: "echo hi | tr a-z A-Z"}) returns a stdout holding the line HI.
ExecRunsPipeline ==
    (last.op = "process.exec" /\ Parsed /\ last.input.command = Cmd(EchoPipe)) =>
        /\ Succeeded
        /\ \E i \in 1..Len(last.resp.data.stdout) : last.resp.data.stdout[i] = "HI"

\* C5: the error value of every error response is exactly {error: message}:
\* one field, and no stack trace or other internal detail beside it.
ErrorIsMessageOnly ==
    Failed =>
        /\ DOMAIN last.resp.error = {"error"}
        /\ "stack" \notin DOMAIN last.resp.error

\* C6: a mutation call invokes its handler at most once, and the handler its
\* side-effecting primitive at most once: a failing primitive is not retried
\* and a process is not launched a second time.
MutationActsOnce ==
    (Called /\ last.op \in Mutations) =>
        /\ last.invoked <= 1
        /\ Len(last.prims) <= 1
        /\ Len(last.launches) <= 1
        /\ Parsed => (last.invoked = 1 /\ Len(last.prims) = 1)

\* A mutation failed in its primitive: a mkdir of a directory that exists.
MutationActsOnce_witness ==
    /\ last.op = "fs.mkdir" /\ Failed /\ last.invoked = 1
    /\ last.resp.error.message.errno = "EEXIST"
    /\ last.prims = << "mkdir" >>

\* A readFile call that names no encoding and opens the file for reading.
PlainRead(input) ==
    /\ ~IsString(input.options)
    /\ IsObject(input.options) => IsUndef(input.options.encoding)
    /\ FlagOf(input.options, "r") = "r"

\* C7: after a successful writeFile(p, {type: "Buffer", data: base64(B)}) and
\* no later write to p, a successful readFile(p) that names no encoding returns
\* {type: "Buffer", data: d} where d base64-decodes to exactly B.
BinaryRoundTrip ==
    (last.op = "fs.readFile" /\ Parsed /\ PlainRead(last.input)
       /\ written.path = last.input.path.v) =>
        /\ Succeeded
        /\ last.resp.data.type = "Buffer"
        /\ FromBase64(last.resp.data.data.cp) = written.bytes

\* Bytes that are no UTF-8 text were written and read back.
BinaryRoundTrip_witness ==
    /\ last.op = "fs.readFile" /\ Parsed /\ PlainRead(last.input)
    /\ written.path = last.input.path.v
    /\ written.bytes = << 255, 72, 233 >>
    /\ Succeeded

\* C8: a native Buffer given to the client's writeFile reaches the server as
\* {type: "Buffer", data: <its base64>}, an input the schema accepts.
ClientEncodesBuffer ==
    (last.via = "client" /\ last.native.t = "NativeBuffer") =>
        /\ last.input.data.data = Txt(ToBase64(last.native.bytes))
        /\ InputIssues("fs.writeFile", last.input) = {}

\* The path of a readFile call names a file.
Readable == PathStatus(fs, last.input.path.v) = "ok" /\ fs[last.input.path.v].kind = "file"

\* An encoding was supplied, as the string form of options or as its field.
EncodingSupplied(options) ==
    IsString(options) \/ (IsObject(options) /\ IsString(options.encoding))

\* C9 (as stated): readFile tags its result by the presence of an encoding
\* alone: Buffer when none is supplied, string when one is.
TagByPresence ==
    (last.op = "fs.readFile" /\ Parsed /\ Readable) =>
        /\ Succeeded
        /\ ~EncodingSupplied(last.input.options) => last.resp.data.type = "Buffer"
        /\ EncodingSupplied(last.input.options) => last.resp.data.type = "string"

\* C9 (amended): on a readable path readFile returns {type: "Buffer", data:
\* base64 of the content} when no encoding or an empty one is supplied, and
\* {type: "string", data: the content's text in that encoding} when a
\* non-empty encoding the runtime supports is supplied; with any other
\* encoding the call fails.
TagByContent ==
    (last.op = "fs.readFile" /\ Parsed /\ Readable) =>
        LET enc == EncodingOf(last.input.options)
            content == fs[last.input.path.v].bytes
        IN
        /\ enc = "" =>
              /\ Succeeded /\ last.resp.data.type = "Buffer"
              /\ last.resp.data.data = Txt(ToBase64(content))
        /\ enc \in SupportedEncodings =>
              /\ Succeeded /\ last.resp.data.type = "string"
              /\ last.resp.data.data = Txt(DecodeBytes(content, enc))
        /\ (enc # "" /\ enc \notin SupportedEncodings) => Failed

\* A file that has content was read with an empty encoding.
TagByContent_witness ==
    /\ last.op = "fs.readFile" /\ Parsed /\ Readable
    /\ IsObject(last.input.options)
    /\ last.input.options.encoding = Str("")
    /\ fs[last.input.path.v].bytes # << >>
    /\ Succeeded

MkdirRecursiveTwice ==
    [][(last.op = "fs.mkdir" /\ Parsed /\ Succeeded
          /\ OptionIs(last.input.options, "recursive", TRUE)
          /\ last'.op = "fs.mkdir" /\ last'.input = last.input) =>
        /\ last'.resp.kind = "result"
        /\ fs' = fs]_vars

\* A recursive mkdir of /d/x succeeded on the directory that was there.
MkdirRecursiveTwice_witness ==
    /\ last.op = "fs.mkdir" /\ Parsed /\ Succeeded
    /\ OptionIs(last.input.options, "recursive", TRUE)
    /\ last.input.path = Str("/d/x")
    /\ fs["/d/x"].kind = "dir" /\ ~last.fsChanged

\* C13: exists never fails a call whose input parses: it returns true when
\* the path is accessible and false when the access check raises an error,
\* whichever error that is.
ExistsNeverFails ==
    (last.op = "fs.exists" /\ Parsed) =>
        /\ Succeeded
        /\ last.resp.data = Bool(PathStatus(fs, last.input.path.v) = "ok")

\* The access check raised an error other than not-found, and exists
\* returned false.
ExistsNeverFails_witness ==
    /\ last.op = "fs.exists" /\ Parsed
    /\ PathStatus(fs, last.input.path.v) = "ENOTDIR"
    /\ last.resp = ResultResponse(Bool(FALSE))

ProcessOps == {"process.spawn", "process.exec"}

\* C14: every process result spawn or exec returns has success equal to
\* (exitCode = 0); a null exitCode goes with success false.
SuccessIsZeroExit ==
    (last.op \in ProcessOps /\ Succeeded) =>
        /\ last.resp.data.success = (last.resp.data.exitCode = 0)
        /\ last.resp.data.exitCode = Null => ~last.resp.data.success

\* A spawned child exited with status 3 and the result says success false.
SuccessIsZeroExit_witness ==
    /\ last.op = "process.spawn" /\ Succeeded
    /\ last.resp.data.exitCode = 3 /\ ~last.resp.data.success

\* C15: when a signal ends the child of a spawn or exec call, the call
\* returns a result with exitCode null and success false instead of failing;
\* a child that exits normally never yields a null exitCode.
SignalGivesNullExit ==
    (last.op \in ProcessOps /\ Parsed
       /\ Len(last.launches) = 1 /\ last.launches[1].started) =>
        /\ last.launches[1].signal # 0 =>
              /\ Succeeded
              /\ last.resp.data.exitCode = Null
              /\ ~last.resp.data.success
        /\ (last.launches[1].signal = 0 /\ Succeeded) =>
              last.resp.data.exitCode # Null

\* C16: when the executable of a spawn or exec call cannot be found, the call
\* fails with an error; a process result is returned only for a child that
\* started.
NotFoundFailsCall ==
    (last.op \in ProcessOps /\ Parsed) =>
        /\ Len(last.launches) = 1
        /\ ~last.launches[1].started => Failed
        /\ Succeeded => last.launches[1].started

\* An exec whose program the host does not have failed, with nothing started.
NotFoundFailsCall_witness ==
    /\ last.op = "process.exec" /\ Parsed
    /\ Len(last.launches) = 1 /\ ~last.launches[1].started
    /\ last.launches[1].argv[1] = "e"
    /\ Failed

\* What the child of the last call wrote, and the modes the call asked for.
ChildRun ==
    HostRun(last.launches[1].argv, last.launches[1].cwd,
            IF last.launches[1].signal # 0 THEN "killed" ELSE "runs")
NotPiped == {Str("inherit"), Str("ignore")}
Piped == {Undef, Str("pipe")}

\* C17: spawn captures stdout and stderr when their option is absent (or
\* "pipe"); when a stream's option is "inherit" or "ignore" its field of the
\* result is empty, whatever the other stream's mode.
SpawnStreamModes ==
    (last.op = "process.spawn" /\ Succeeded) =>
        LET out == OptionOf(last.input.options, "stdout")
            err == OptionOf(last.input.options, "stderr")
        IN
        /\ out \in Piped => last.resp.data.stdout = ChildRun.stdout
        /\ err \in Piped => last.resp.data.stderr = ChildRun.stderr
        /\ out \in NotPiped => last.resp.data.stdout = << >>
        /\ err \in NotPiped => last.resp.data.stderr = << >>

\* A child wrote to both streams; stdout was ignored and stderr captured.
SpawnStreamModes_witness ==
    /\ last.op = "process.spawn" /\ Succeeded
    /\ OptionOf(last.input.options, "stdout") = Str("ignore")
    /\ OptionOf(last.input.options, "stderr") = Undef
    /\ ChildRun.stdout = << "out" >>
    /\ last.resp.data.stdout = << >> /\ last.resp.data.stderr = << "err" >>

\* C18: the shape of readdir's elements is selected by withFileTypes alone:
\* on a directory, whatever encoding the options name, the result is a list
\* of {name, isFile, isDirectory, isSymbolicLink} records when withFileTypes
\* is true and a list of plain name strings otherwise.
ReaddirShapeByFileTypes ==
    (last.op = "fs.readdir" /\ Parsed
       /\ PathStatus(fs, last.input.path.v) = "ok"
       /\ fs[last.input.path.v].kind = "dir") =>
        /\ Succeeded
        /\ IsArray(last.resp.data)
        /\ \A i \in 1..Len(last.resp.data.v) :
              IF OptionIs(last.input.options, "withFileTypes", TRUE)
              THEN /\ IsObject(last.resp.data.v[i])
                   /\ DOMAIN last.resp.data.v[i] =
                        {"t", "name", "isFile", "isDirectory", "isSymbolicLink"}
              ELSE IsString(last.resp.data.v[i])

\* What stat(path) does on the filesystem as it is.
StatOfLastPath ==
    statQuery([fs |-> fs, shell |-> shell], [path |-> last.input.path, options |-> Undef])

\* C19: fileSize(path) is stat(path).size: it fails exactly when stat(path)
\* fails, with the same error, and otherwise returns the number that is the
\* size field of stat(path).
FileSizeIsStatSize ==
    (last.op = "fs.fileSize" /\ Parsed) =>
        /\ ~last.fsChanged
        /\ Failed <=> StatOfLastPath.kind = "throw"
        /\ Failed => last.resp.error.message = StatOfLastPath.payload
        /\ Succeeded => last.resp.data = Num(StatOfLastPath.payload.size)

\* fileSize returned the size of a directory, as stat does.
FileSizeIsStatSize_witness ==
    /\ last.op = "fs.fileSize" /\ Parsed /\ Succeeded
    /\ fs[last.input.path.v].kind = "dir"
    /\ last.resp.data = Num(StatOfLastPath.payload.size)

\* C20: every operation registered as a query is read-only: a call of
\* exists, readdir, readFile, stat or fileSize whose input parses, whatever
\* flag readFile is given, leaves the filesystem as it was.
QueriesReadOnly ==
    (last.op \in Queries /\ Parsed) => ~last.fsChanged


FileLifecycle ==
    (last.native.t = "lifecycle" /\ ~last.native.aside) =>
        LET p == last.native.path
            s == last.native.text
        IN
        CASE last.native.step = 1 ->
                IF Succeeded THEN last.resp.data = [t |-> "object", success |-> TRUE]
                ELSE ParentStatus(fs, p) # "ok" \/ fs[p].kind = "dir"
          [] last.native.step = 2 ->
                /\ Succeeded
                /\ last.resp.data = [t |-> "object", type |-> "string", data |-> Txt(s)]
          [] last.native.step = 3 ->
                /\ Succeeded
                /\ last.resp.data = Num(Len(Utf8Encode(s)))
                /\ s = Hello => last.resp.data = Num(5)
          [] last.native.step = 4 ->
                /\ Succeeded
                /\ last.resp.data = [t |-> "object", success |-> TRUE]
          [] last.native.step = 5 ->
                /\ Succeeded
                /\ last.resp.data = Bool(FALSE)

\* The sequence on "/d/x" with "hello" reached its end, calls on another
\* path in between.
FileLifecycle_witness ==
    /\ last.native.t = "lifecycle"
    /\ last.native.step = 5
    /\ last.native.text = Hello
    /\ last.native.path = "/d/x"
    /\ last.op = "fs.exists"
    /\ fs["/d/y"].kind = "file"

\* A writeFile call that names no flag.
NoFlag(input) == IsObject(input.options) => IsUndef(input.options.flag)

\* C23: a successful writeFile(p, d) that names no flag leaves p a file
\* whose content is exactly d, the bytes B when d is {type: "Buffer", data:
\* base64(B)}, the text in its encoding when d is a string, whatever p held
\* before; no other path changes.
WriteFileOverwrites ==
    [][(last'.op = "fs.writeFile" /\ Parsed' /\ last'.resp.kind = "result"
        /\ NoFlag(last'.input)) =>
        LET p == last'.input.path.v
            d == last'.input.data
        IN
        /\ fs'[p].kind = "file"
        /\ IsObject(d) => \A B \in BinaryPayloads :
                d.data.cp = ToBase64(B) => fs'[p].bytes = B
        /\ IsString(d) =>
            /\ fs'[p].bytes = EncodeText(d.cp, EncodingOf(last'.input.options))
            /\ d.cp = << 72 >> => fs'[p].bytes = << 72 >>
            /\ d.cp = << 233 >> => fs'[p].bytes = << 195, 169 >>
        /\ \A q \in Paths \ {p} : fs'[q] = fs[q]]_vars

\* A write that names no flag changed a file to the three bytes it carried.
WriteFileOverwrites_witness ==
    /\ last.op = "fs.writeFile" /\ Succeeded /\ NoFlag(last.input)
    /\ IsObject(last.input.data)
    /\ last.input.data.data.cp = ToBase64(<< 255, 72, 233 >>)
    /\ fs["/d/x"] = FileNode(<< 255, 72, 233 >>)
    /\ last.fsChanged

\* C24: stat of an existing path returns, for every options value the schema
\* accepts (bigint: true among them), a record of the statOutput shape: its
\* numeric fields are numbers (not BigInts), its type predicates booleans.
StatConformsToOutput ==
    (last.op = "fs.stat" /\ Parsed /\ PathStatus(fs, last.input.path.v) = "ok") =>
        /\ Succeeded
        /\ last.resp.data.t = "object"
        /\ last.resp.data.size \in Nat
        /\ ~last.resp.data.bigint
        /\ {last.resp.data.isFile, last.resp.data.isDirectory,
            last.resp.data.isSymbolicLink} \subseteq BOOLEAN

\* C25: for a directory, readdir(dir, {withFileTypes: true}) returns one
\* entry per child; the entries' names are the set of names readdir(dir)
\* returns without options; no entry is both file and directory; a regular
\* file has isFile true and isDirectory false, a subdirectory the reverse.
ReaddirTypesMatchNames ==
    (last.op = "fs.readdir" /\ Parsed
       /\ OptionIs(last.input.options, "withFileTypes", TRUE)
       /\ IsUndef(last.input.options.encoding)
       /\ PathStatus(fs, last.input.path.v) = "ok"
       /\ fs[last.input.path.v].kind = "dir") =>
        LET es == last.resp.data.v
            kids == {q \in ChildrenOf(last.input.path.v) : fs[q].kind # "none"}
            plain == readdirQuery([fs |-> fs, shell |-> shell],
                                  [path |-> last.input.path, options |-> Undef], "asc")
        IN
        /\ Succeeded
        /\ Len(es) = Cardinality(kids)
        /\ plain.kind = "return"
        /\ {Str(es[i].name) : i \in 1..Len(es)}
           = {plain.payload.v[i] : i \in 1..Len(plain.payload.v)}
        /\ \A i \in 1..Len(es) : ~(es[i].isFile /\ es[i].isDirectory)
        /\ \A q \in kids : \E i \in 1..Len(es) :
            /\ es[i].name = BaseName(q)
            /\ es[i].isFile = (fs[q].kind = "file")
            /\ es[i].isDirectory = (fs[q].kind = "dir")

\* A listing with file types of a directory holding a file and a directory.
ReaddirTypesMatchNames_witness ==
    /\ last.op = "fs.readdir" /\ Succeeded
    /\ OptionIs(last.input.options, "withFileTypes", TRUE)
    /\ last.input.path = Str("/d")
    /\ fs["/d/x"].kind = "file"
    /\ fs["/d/y"].kind = "dir"
    /\ Len(last.resp.data.v) = 2

\* The child waits on a write to a full pipe.
Blocked ==
    /\ child.state = "Running" /\ child.todo # << >>
    /\ Len(child.pipe[Head(child.todo)]) >= PipeCap

\* C26: with stdout and stderr piped, a spawn call whose child is let run
\* returns in the end, whatever the order and the number of the child's
\* writes against the pipes' capacity; and a child waiting on a full pipe
\* does not wait for ever.
SpawnDrainsBothPipes ==
    /\ (child.pc = "reading" /\ child.op = "process.spawn") ~> (child.pc = "returned")
    /\ Blocked ~> ~Blocked

\* A spawn call returned whose child wrote more to stderr than the pipe
\* holds before it wrote to stdout.
SpawnDrainsBothPipes_witness ==
    /\ child.pc = "returned" /\ child.op = "process.spawn"
    /\ child.state = "Exited"
    /\ child.wrote.stderr = << 1, 2 >>
    /\ child.wrote.stdout = << 3 >>

\* C27: a process call produces its one result only once the child has
\* ended (Exited or Killed) and both piped streams were read to their end:
\* the result's stdout and stderr are all the child wrote to each stream,
\* and while the child is Created or Running there is no result.
ResultAfterChildEnds ==
    /\ child.state \in {"Created", "Running"} =>
        /\ child.pc = "reading"
        /\ child.result.kind = "none"
    /\ child.pc = "returned" =>
        /\ child.state \in {"Exited", "Killed"}
        /\ \A s \in Streams : child.eof[s] /\ child.pipe[s] = << >>
        /\ child.result.kind = "result" =>
            /\ child.result.data.stdout = child.wrote.stdout
            /\ child.result.data.stderr = child.wrote.stderr
        /\ child.result.kind = "result" \/ child.op = "process.exec"

\* A call returned the output of a child that was killed after it had
\* written to both streams.
ResultAfterChildEnds_witness ==
    /\ child.pc = "returned" /\ child.state = "Killed"
    /\ child.result.kind = "result"
    /\ child.result.data.stdout = << 2 >>
    /\ child.result.data.stderr = << 1 >>
    /\ child.todo # << >>

\* C28: stat follows a symbolic link: a successful stat has isSymbolicLink
\* false, and for a link its isFile and isDirectory are those of what the
\* link names; readdir with withFileTypes true reports a child that is a
\* link with isSymbolicLink true; no stat result is both file and directory.
StatFollowsLinks ==
    /\ (last.op \in {"fs.stat", "fs.fileSize"} /\ Parsed
          /\ fs[last.input.path.v].kind = "link") =>
            Succeeded <=> fs[fs[last.input.path.v].target].kind # "none"
    /\ (last.op = "fs.stat" /\ Succeeded) =>
        /\ ~last.resp.data.isSymbolicLink
        /\ ~(last.resp.data.isFile /\ last.resp.data.isDirectory)
        /\ fs[last.input.path.v].kind = "link" =>
            /\ last.resp.data.isFile = (fs[fs[last.input.path.v].target].kind = "file")
            /\ last.resp.data.isDirectory = (fs[fs[last.input.path.v].target].kind = "dir")
    /\ (last.op = "fs.readdir" /\ Succeeded
          /\ OptionIs(last.input.options, "withFileTypes", TRUE)) =>
        \A i \in 1..Len(last.resp.data.v) : \A q \in ChildrenOf(last.input.path.v) :
            last.resp.data.v[i].name = BaseName(q) =>
                /\ last.resp.data.v[i].isSymbolicLink = (fs[q].kind = "link")
                /\ fs[q].kind = "link" =>
                    ~last.resp.data.v[i].isFile /\ ~last.resp.data.v[i].isDirectory

\* stat of a link to a directory reported a directory that is no link.
StatFollowsLinks_witness ==
    /\ last.op = "fs.stat" /\ Succeeded
    /\ last.input.path = Str("/d/y")
    /\ fs["/d/y"] = LinkNode("/d")
    /\ last.resp.data.isDirectory
    /\ ~last.resp.data.isSymbolicLink
====
